---------------------------- MODULE Spec2Model ----------------------------
(***************************************************************************)
(* A model of pdfwala's PDFKit class (src/index.js): six asynchronous      *)
(* operations over the file system, pdf-parse and pdf-lib.  A JavaScript   *)
(* string is a sequence of one-character strings, so that split, join,     *)
(* includes, toLowerCase and extname are computed rather than assumed.     *)
(* An action is the code that runs between two awaits.                     *)
(***************************************************************************)
EXTENDS Integers, Sequences, FiniteSets, TLC

VARIABLES fs, op, filePath, searchTerm, options, outputPath, pageNumbers,
          pc, pdf, pdfDoc, newPdfDoc, idx, nested, result, effects, fs0

vars == <<fs, op, filePath, searchTerm, options, outputPath, pageNumbers,
          pc, pdf, pdfDoc, newPdfDoc, idx, nested, result, effects, fs0>>

(***************************************************************************)
(* Bounds of the model.                                                    *)
(***************************************************************************)
MaxReq == 2
MaxPageNum == 2

(***************************************************************************)
(* JavaScript values.                                                      *)
(***************************************************************************)
NL == "\n"
Undefined == <<"undefined">>
EmptyString == <<>>

Falsy(v) == v = Undefined \/ v = EmptyString

A_PDF == <<"a", ".", "p", "d", "f">>
B_PDF == <<"b", ".", "P", "D", "F">>
C_TXT == <<"c", ".", "t", "x", "t">>
D_PDF == <<"d", ".", "p", "d", "f">>
O_PDF == <<"o", ".", "p", "d", "f">>
DOT_PDF == <<".", "p", "d", "f">>
M_TXT == <<"m", ".", "t", "x", "t">>

Paths == {A_PDF, B_PDF, C_TXT, D_PDF, O_PDF, DOT_PDF, M_TXT}
InputPaths == Paths \cup {Undefined}
OutputPaths == {Undefined, EmptyString, O_PDF, D_PDF}
SearchTerms == {EmptyString, <<"F", "o">>, <<"O">>, <<"z">>}
OptionValues == {"omitted", "empty", "caseSensitive", "caseInsensitive", "null"}

Page1 == <<"F", "o">>
Page2 == <<"f", "O", NL, "z">>
Page3 == <<"o">>

Missing == [kind |-> "missing", pages |-> <<>>, text |-> <<>>]
Directory == [kind |-> "dir", pages |-> <<>>, text |-> <<>>]
PdfFile(pages) == [kind |-> "pdf", pages |-> pages, text |-> <<>>]
TextFile(text) == [kind |-> "text", pages |-> <<>>, text |-> text]

RECURSIVE SeqsUpTo(_, _)
SeqsUpTo(S, n) ==
    IF n = 0 THEN {<<>>}
    ELSE LET shorter == SeqsUpTo(S, n - 1)
         IN  shorter \cup {Append(s, x) : s \in shorter, x \in S}

ArrayOf(items) == [kind |-> "array", items |-> items]
PageNumberValues ==
    {[kind |-> "undefined", items |-> <<>>], [kind |-> "string", items |-> <<>>]}
        \cup {ArrayOf(s) : s \in SeqsUpTo(0..MaxPageNum, MaxReq)}

(***************************************************************************)
(* String functions of JavaScript and of node's path module.               *)
(***************************************************************************)
LowerChar(c) ==
    CASE c = "F" -> "f"
      [] c = "O" -> "o"
      [] c = "P" -> "p"
      [] c = "D" -> "d"
      [] OTHER -> c

RECURSIVE toLowerCase(_)
toLowerCase(s) ==
    IF Len(s) = 0 THEN <<>>
    ELSE <<LowerChar(Head(s))>> \o toLowerCase(Tail(s))

includes(s, t) ==
    \E i \in 0..(Len(s) - Len(t)) : SubSeq(s, i + 1, i + Len(t)) = t

RECURSIVE split(_)
split(s) ==
    IF \A i \in 1..Len(s) : s[i] # NL THEN <<s>>
    ELSE LET k == CHOOSE i \in 1..Len(s) :
                      s[i] = NL /\ \A j \in 1..(i - 1) : s[j] # NL
         IN  <<SubSeq(s, 1, k - 1)>> \o split(SubSeq(s, k + 1, Len(s)))

\* join without the separator
RECURSIVE join_NoSeparator(_)
join_NoSeparator(lines) ==
    IF Len(lines) = 0 THEN <<>>
    ELSE lines[1] \o join_NoSeparator(Tail(lines))

RECURSIVE join(_)
join(lines) ==
    IF Len(lines) = 0 THEN <<>>
    ELSE IF Len(lines) = 1 THEN lines[1]
    ELSE lines[1] \o <<NL>> \o join(Tail(lines))

LastIndexOf(s, c) ==
    IF \A i \in 1..Len(s) : s[i] # c THEN 0
    ELSE CHOOSE i \in 1..Len(s) : s[i] = c /\ \A j \in (i + 1)..Len(s) : s[j] # c

basename(p) == SubSeq(p, LastIndexOf(p, "/") + 1, Len(p))

extname(p) ==
    LET base == basename(p)
        dot == LastIndexOf(base, ".")
    IN  IF dot = 0 \/ dot = 1 \/ base = <<".", ".">> THEN <<>>
        ELSE SubSeq(base, dot, Len(base))

PathText(p) ==
    CASE p = A_PDF -> "a.pdf"
      [] p = B_PDF -> "b.PDF"
      [] p = C_TXT -> "c.txt"
      [] p = D_PDF -> "d.pdf"
      [] p = O_PDF -> "o.pdf"
      [] p = DOT_PDF -> ".pdf"
      [] p = M_TXT -> "m.txt"
      [] OTHER -> "undefined"

ExtText(e) ==
    CASE e = <<".", "p", "d", "f">> -> ".pdf"
      [] e = <<".", "t", "x", "t">> -> ".txt"
      [] OTHER -> ""

(***************************************************************************)
(* Errors.                                                                 *)
(***************************************************************************)
NoError == [name |-> "none", type |-> "none", message |-> <<>>]
Error(message) == [name |-> "Error", type |-> "none", message |-> <<message>>]
TypeError(message) == [name |-> "TypeError", type |-> "none", message |-> <<message>>]

DefaultType == "default"

PDFKitError(message, type) ==
    [name |-> "PDFKitError",
     type |-> IF type = DefaultType THEN "UnknownError" ELSE type,
     message |-> message]

IsPDFKitError(err) == err.name = "PDFKitError"

(***************************************************************************)
(* Values a call settles with.                                             *)
(***************************************************************************)
NoValue ==
    [kind |-> "undefined", lines |-> <<>>, text |-> <<>>, number |-> 0,
     textLength |-> 0, filename |-> <<>>]
LinesValue(lines) == [NoValue EXCEPT !.kind = "lines", !.lines = lines]
NumberValue(n) == [NoValue EXCEPT !.kind = "number", !.number = n]
StringValue(s) == [NoValue EXCEPT !.kind = "string", !.text = s]
MetadataValue(totalPages, totalText, textLength, filename) ==
    [kind |-> "metadata", lines |-> <<>>, text |-> totalText, number |-> totalPages,
     textLength |-> textLength, filename |-> filename]

Pending == [status |-> "pending", err |-> NoError, value |-> NoValue]
Returned(v) == [status |-> "returned", err |-> NoError, value |-> v]
Thrown(e) == [status |-> "thrown", err |-> e, value |-> NoValue]

(***************************************************************************)
(* The file system and the two delegate libraries.                         *)
(***************************************************************************)
existsSync(files, p) == p \in Paths /\ files[p].kind # "missing"

ReadFails(files, p) == files[p].kind = "dir"
ReadError == Error("EISDIR: illegal operation on a directory, read")

WriteFails(files, p) == files[p].kind = "dir"
WriteError == Error("EISDIR: illegal operation on a directory, open")

RECURSIVE DecodedText(_)
DecodedText(pages) ==
    IF Len(pages) = 0 THEN <<>>
    ELSE DecodedText(SubSeq(pages, 1, Len(pages) - 1))
             \o <<NL, NL>> \o pages[Len(pages)]

pdfparse(bytes) ==
    IF bytes.kind = "pdf"
    THEN [err |-> NoError, text |-> DecodedText(bytes.pages),
          numpages |-> Len(bytes.pages)]
    ELSE [err |-> Error("Invalid PDF structure"), text |-> <<>>, numpages |-> 0]

PDFDocumentLoad(bytes) ==
    IF bytes.kind = "pdf"
    THEN [err |-> NoError, pages |-> bytes.pages]
    ELSE [err |-> Error("No PDF header found"), pages |-> <<>>]

copyPages(doc, index) == doc[index + 1]

(***************************************************************************)
(* _validateFilePath and the catch clause of each operation.               *)
(***************************************************************************)
\* the extension is looked at before the existence of the file
validateFilePath_ExtensionFirst(files, p) ==
    LET ext == IF p \in Paths THEN toLowerCase(extname(p)) ELSE <<>>
    IN  IF ext # <<".", "p", "d", "f">>
        THEN PDFKitError(<<"Invalid file type. Expected .pdf, got ", ExtText(ext)>>,
                         "InvalidFileType")
        ELSE IF ~existsSync(files, p)
        THEN PDFKitError(<<"File not found: ", PathText(p)>>, "FileNotFound")
        ELSE NoError

validateFilePath(files, p) ==
    IF ~existsSync(files, p)
    THEN PDFKitError(<<"File not found: ", PathText(p)>>, "FileNotFound")
    ELSE LET ext == toLowerCase(extname(p))
         IN  IF ext # <<".", "p", "d", "f">>
             THEN PDFKitError(<<"Invalid file type. Expected .pdf, got ", ExtText(ext)>>,
                              "InvalidFileType")
             ELSE NoError

Catch(err, prefix, type) ==
    IF IsPDFKitError(err) THEN err
    ELSE PDFKitError(<<prefix>> \o err.message, type)

CatchIntoarray(err) == Catch(err, "Failed to parse PDF: ", "ParseError")
CatchGetPageCount(err) == Catch(err, "Failed to get page count: ", "PageCountError")
\* the catch clause without its instanceof test
CatchSearchText_AlwaysWraps(err) ==
    PDFKitError(<<"Failed to search PDF: ">> \o err.message, "SearchError")

CatchSearchText(err) == Catch(err, "Failed to search PDF: ", "SearchError")
CatchExtractPages(err) == Catch(err, "Failed to extract pages: ", "ExtractPagesError")
CatchGetMetadata(err) == Catch(err, "Failed to get metadata: ", "MetadataError")
\* the catch clause without its instanceof test
CatchConvertToText_AlwaysWraps(err) ==
    PDFKitError(<<"Failed to convert PDF to text: ">> \o err.message,
                "ConvertToTextError")

CatchConvertToText(err) ==
    Catch(err, "Failed to convert PDF to text: ", "ConvertToTextError")

(***************************************************************************)
(* The code of each operation up to its first await, and after it.  Each   *)
(* yields the error thrown (NoError when none), the nested error caught,   *)
(* the calls made on the file system and the delegates, and the locals.    *)
(***************************************************************************)
Outcome(thrown, nestedErr, calls, bytes) ==
    [thrown |-> thrown, nested |-> nestedErr, effects |-> calls, pdf |-> bytes]

\* the file is read before the path is validated
ReadAndParseStart_ReadsFirst(files, p, delegate) ==
    LET v == validateFilePath(files, p)
    IN  IF ~existsSync(files, p)
        THEN Outcome(Error("ENOENT: no such file or directory"), NoError,
                     <<"readFileSync">>, Missing)
        ELSE IF ReadFails(files, p)
        THEN Outcome(ReadError, NoError, <<"readFileSync">>, Missing)
        ELSE IF v # NoError
        THEN Outcome(v, NoError, <<"readFileSync", "existsSync">>, Missing)
        ELSE Outcome(NoError, NoError, <<"readFileSync", "existsSync", delegate>>,
                     files[p])

\* validate, readFileSync, then the delegate call `delegate` is started
ReadAndParseStart(files, p, delegate) ==
    LET v == validateFilePath(files, p)
    IN  IF v # NoError THEN Outcome(v, NoError, <<"existsSync">>, Missing)
        ELSE IF ReadFails(files, p)
        THEN Outcome(ReadError, NoError, <<"existsSync", "readFileSync">>, Missing)
        ELSE Outcome(NoError, NoError, <<"existsSync", "readFileSync", delegate>>,
                     files[p])

IntoarrayStart(files, p) ==
    LET s == ReadAndParseStart(files, p, "pdfparse")
    IN  [s EXCEPT !.thrown = IF @ = NoError THEN @ ELSE CatchIntoarray(@)]

IntoarraySettle(bytes) ==
    LET data == pdfparse(bytes)
    IN  IF data.err # NoError
        THEN [thrown |-> CatchIntoarray(data.err), lines |-> <<>>]
        ELSE [thrown |-> NoError, lines |-> split(data.text)]

GetPageCountStart(files, p) ==
    LET s == ReadAndParseStart(files, p, "pdfparse")
    IN  [s EXCEPT !.thrown = IF @ = NoError THEN @ ELSE CatchGetPageCount(@)]

GetPageCountSettle(bytes) ==
    LET data == pdfparse(bytes)
    IN  IF data.err # NoError
        THEN Thrown(CatchGetPageCount(data.err))
        ELSE Returned(NumberValue(data.numpages))

GetMetadataStart(files, p) ==
    LET s == ReadAndParseStart(files, p, "pdfparse")
    IN  [s EXCEPT !.thrown = IF @ = NoError THEN @ ELSE CatchGetMetadata(@)]

GetMetadataSettle(bytes, p) ==
    LET data == pdfparse(bytes)
    IN  IF data.err # NoError
        THEN Thrown(CatchGetMetadata(data.err))
        ELSE Returned(MetadataValue(data.numpages, data.text, Len(data.text),
                                    basename(p)))

\* the nested call this.intoarray(p) made by searchText and convertToText
NestedIntoarrayStart(files, p, before) ==
    LET s == IntoarrayStart(files, p)
    IN  Outcome(s.thrown, s.thrown, before \o s.effects, s.pdf)

\* the search term is checked before the path
SearchTextStart_TermFirst(files, p, term, opts) ==
    LET v == validateFilePath(files, p)
        s == IF opts = "null"
             THEN Outcome(TypeError("Cannot destructure property 'caseSensitive' of 'options' as it is null."),
                          NoError, <<>>, Missing)
             ELSE IF Falsy(term)
             THEN Outcome(PDFKitError(<<"Invalid search terms provided">>, "InvalidSearchTerm"),
                          NoError, <<>>, Missing)
             ELSE IF v # NoError THEN Outcome(v, NoError, <<"existsSync">>, Missing)
             ELSE NestedIntoarrayStart(files, p, <<"existsSync">>)
    IN  [s EXCEPT !.thrown = IF @ = NoError THEN @ ELSE CatchSearchText(@)]

SearchTextStart(files, p, term, opts) ==
    LET v == validateFilePath(files, p)
        s == IF v # NoError THEN Outcome(v, NoError, <<"existsSync">>, Missing)
             ELSE IF opts = "null"
             THEN Outcome(TypeError("Cannot destructure property 'caseSensitive' of 'options' as it is null."),
                          NoError, <<"existsSync">>, Missing)
             ELSE IF Falsy(term)
             THEN Outcome(PDFKitError(<<"Invalid search terms provided">>, "InvalidSearchTerm"),
                          NoError, <<"existsSync">>, Missing)
             ELSE NestedIntoarrayStart(files, p, <<"existsSync">>)
    IN  [s EXCEPT !.thrown = IF @ = NoError THEN @ ELSE CatchSearchText(@)]

caseSensitive(opts) == opts = "caseSensitive"

\* only the line is case-folded
searchFunc_TermNotFolded(line, term, opts) ==
    IF caseSensitive(opts) THEN includes(line, term)
    ELSE includes(toLowerCase(line), term)

searchFunc(line, term, opts) ==
    IF caseSensitive(opts) THEN includes(line, term)
    ELSE includes(toLowerCase(line), toLowerCase(term))

RECURSIVE filter(_, _, _)
filter(lines, term, opts) ==
    IF Len(lines) = 0 THEN <<>>
    ELSE (IF searchFunc(Head(lines), term, opts) THEN <<Head(lines)>> ELSE <<>>)
             \o filter(Tail(lines), term, opts)

\* convertToText reads the file itself before it calls intoarray
ConvertToTextStart_ReadsItself(files, p) ==
    LET v == validateFilePath(files, p)
        s == IF v # NoError THEN Outcome(v, NoError, <<"existsSync">>, Missing)
             ELSE IF ReadFails(files, p)
             THEN Outcome(ReadError, NoError, <<"existsSync", "readFileSync">>, Missing)
             ELSE NestedIntoarrayStart(files, p, <<"existsSync", "readFileSync">>)
    IN  [s EXCEPT !.thrown = IF @ = NoError THEN @ ELSE CatchConvertToText(@)]

ConvertToTextStart(files, p) ==
    LET v == validateFilePath(files, p)
        s == IF v # NoError THEN Outcome(v, NoError, <<"existsSync">>, Missing)
             ELSE NestedIntoarrayStart(files, p, <<"existsSync">>)
    IN  [s EXCEPT !.thrown = IF @ = NoError THEN @ ELSE CatchConvertToText(@)]

ValidPageNumbers(nums) == nums.kind = "array" /\ Len(nums.items) # 0

\* the page numbers are checked before the output path
ExtractPagesStart_PageNumbersFirst(files, p, out, nums) ==
    LET v == validateFilePath(files, p)
        s == IF v # NoError THEN Outcome(v, NoError, <<"existsSync">>, Missing)
             ELSE IF ~ValidPageNumbers(nums)
             THEN Outcome(PDFKitError(<<"Invalid page numbers provided">>, "InvalidPageNumbers"),
                          NoError, <<"existsSync">>, Missing)
             ELSE IF Falsy(out)
             THEN Outcome(PDFKitError(<<"Invalid path provided">>, "InvalidOutputPath"),
                          NoError, <<"existsSync">>, Missing)
             ELSE IF ReadFails(files, p)
             THEN Outcome(ReadError, NoError, <<"existsSync", "readFileSync">>, Missing)
             ELSE Outcome(NoError, NoError, <<"existsSync", "readFileSync", "load">>,
                          files[p])
    IN  [s EXCEPT !.thrown = IF @ = NoError THEN @ ELSE CatchExtractPages(@)]

ExtractPagesStart(files, p, out, nums) ==
    LET v == validateFilePath(files, p)
        s == IF v # NoError THEN Outcome(v, NoError, <<"existsSync">>, Missing)
             ELSE IF Falsy(out)
             THEN Outcome(PDFKitError(<<"Invalid path provided">>, "InvalidOutputPath"),
                          NoError, <<"existsSync">>, Missing)
             ELSE IF ~ValidPageNumbers(nums)
             THEN Outcome(PDFKitError(<<"Invalid page numbers provided">>, "InvalidPageNumbers"),
                          NoError, <<"existsSync">>, Missing)
             ELSE IF ReadFails(files, p)
             THEN Outcome(ReadError, NoError, <<"existsSync", "readFileSync">>, Missing)
             ELSE Outcome(NoError, NoError, <<"existsSync", "readFileSync", "load">>,
                          files[p])
    IN  [s EXCEPT !.thrown = IF @ = NoError THEN @ ELSE CatchExtractPages(@)]

\* the last page is taken to be out of range
InRange_ExcludesLastPage(pageNum, pageCount) == pageNum > 0 /\ pageNum < pageCount

InRange(pageNum, pageCount) == pageNum > 0 /\ pageNum <= pageCount

\* the first position at or after i whose page number is copied
RECURSIVE NextInRange(_, _, _)
NextInRange(items, i, pageCount) ==
    IF i > Len(items) THEN i
    ELSE IF InRange(items[i], pageCount) THEN i
    ELSE NextInRange(items, i + 1, pageCount)

Warnings(n) == [k \in 1..n |-> "warn"]

(***************************************************************************)
(* The state after construction: no call in flight.                        *)
(***************************************************************************)
InitialFiles(b) ==
    [p \in Paths |->
        CASE p = A_PDF -> PdfFile(<<Page1, Page2>>)
          [] p = B_PDF -> b
          [] p = C_TXT -> TextFile(<<"z">>)
          [] p = D_PDF -> Directory
          [] p = DOT_PDF -> TextFile(<<"z">>)
          [] OTHER -> Missing]

NoPageNumbers == [kind |-> "undefined", items |-> <<>>]

Init ==
    /\ fs \in {InitialFiles(b) : b \in {PdfFile(<<Page3>>), TextFile(<<"z">>)}}
    /\ fs0 = fs
    /\ op = "none"
    /\ filePath = Undefined
    /\ searchTerm = Undefined
    /\ options = "omitted"
    /\ outputPath = Undefined
    /\ pageNumbers = NoPageNumbers
    /\ pc = "idle"
    /\ pdf = Missing
    /\ pdfDoc = <<>>
    /\ newPdfDoc = <<>>
    /\ idx = 0
    /\ nested = NoError
    /\ result = Pending
    /\ effects = <<>>

\* a call is made: its arguments are bound and its synchronous part `s` runs
Begin(o, p, term, opts, out, nums, s, awaiting) ==
    /\ pc = "idle"
    /\ op' = o
    /\ filePath' = p
    /\ searchTerm' = term
    /\ options' = opts
    /\ outputPath' = out
    /\ pageNumbers' = nums
    /\ fs0' = fs
    /\ pdfDoc' = <<>>
    /\ newPdfDoc' = <<>>
    /\ idx' = 0
    /\ effects' = s.effects
    /\ nested' = s.nested
    /\ pdf' = s.pdf
    /\ IF s.thrown # NoError
       THEN pc' = "settled" /\ result' = Thrown(s.thrown)
       ELSE pc' = awaiting /\ result' = Pending
    /\ UNCHANGED fs

Frame == UNCHANGED <<op, filePath, searchTerm, options, outputPath, pageNumbers,
                     pdf, fs0>>

intoarray ==
    \E p \in InputPaths :
        Begin("intoarray", p, Undefined, "omitted", Undefined, NoPageNumbers,
              IntoarrayStart(fs, p), "await_pdfparse")

intoarrayParsed ==
    /\ pc = "await_pdfparse" /\ op = "intoarray"
    /\ LET r == IntoarraySettle(pdf)
       IN  result' = IF r.thrown # NoError THEN Thrown(r.thrown)
                     ELSE Returned(LinesValue(r.lines))
    /\ pc' = "settled"
    /\ Frame
    /\ UNCHANGED <<fs, pdfDoc, newPdfDoc, idx, nested, effects>>

getPageCount ==
    \E p \in InputPaths :
        Begin("getPageCount", p, Undefined, "omitted", Undefined, NoPageNumbers,
              GetPageCountStart(fs, p), "await_pdfparse")

getPageCountParsed ==
    /\ pc = "await_pdfparse" /\ op = "getPageCount"
    /\ result' = GetPageCountSettle(pdf)
    /\ pc' = "settled"
    /\ Frame
    /\ UNCHANGED <<fs, pdfDoc, newPdfDoc, idx, nested, effects>>

getMetadata ==
    \E p \in InputPaths :
        Begin("getMetadata", p, Undefined, "omitted", Undefined, NoPageNumbers,
              GetMetadataStart(fs, p), "await_pdfparse")

getMetadataParsed ==
    /\ pc = "await_pdfparse" /\ op = "getMetadata"
    /\ result' = GetMetadataSettle(pdf, filePath)
    /\ pc' = "settled"
    /\ Frame
    /\ UNCHANGED <<fs, pdfDoc, newPdfDoc, idx, nested, effects>>

searchText ==
    \E p \in InputPaths, term \in SearchTerms, opts \in OptionValues :
        Begin("searchText", p, term, opts, Undefined, NoPageNumbers,
              SearchTextStart(fs, p, term, opts), "await_pdfparse")

searchTextParsed ==
    /\ pc = "await_pdfparse" /\ op = "searchText"
    /\ LET r == IntoarraySettle(pdf)
       IN  IF r.thrown # NoError
           THEN /\ nested' = r.thrown
                /\ result' = Thrown(CatchSearchText(r.thrown))
           ELSE /\ nested' = nested
                /\ result' = Returned(LinesValue(filter(r.lines, searchTerm, options)))
    /\ pc' = "settled"
    /\ Frame
    /\ UNCHANGED <<fs, pdfDoc, newPdfDoc, idx, effects>>

convertToText ==
    \E p \in InputPaths, out \in OutputPaths :
        Begin("convertToText", p, Undefined, "omitted", out, NoPageNumbers,
              ConvertToTextStart(fs, p), "await_pdfparse")

convertToTextParsed ==
    /\ pc = "await_pdfparse" /\ op = "convertToText"
    /\ LET r == IntoarraySettle(pdf)
       IN  IF r.thrown # NoError
           THEN /\ nested' = r.thrown
                /\ result' = Thrown(CatchConvertToText(r.thrown))
                /\ UNCHANGED <<fs, effects>>
           ELSE IF ~Falsy(outputPath)
           THEN /\ nested' = nested
                /\ effects' = Append(effects, "writeFileSync")
                /\ IF WriteFails(fs, outputPath)
                   THEN /\ result' = Thrown(CatchConvertToText(WriteError))
                        /\ fs' = fs
                   ELSE /\ result' = Returned(StringValue(EmptyString))
                        /\ fs' = [fs EXCEPT ![outputPath] = TextFile(join(r.lines))]
           ELSE /\ nested' = nested
                /\ result' = Returned(StringValue(join(r.lines)))
                /\ UNCHANGED <<fs, effects>>
    /\ pc' = "settled"
    /\ Frame
    /\ UNCHANGED <<pdfDoc, newPdfDoc, idx>>

extractPages ==
    \E p \in InputPaths, out \in OutputPaths, nums \in PageNumberValues :
        Begin("extractPages", p, Undefined, "omitted", out, nums,
              ExtractPagesStart(fs, p, out, nums), "await_load")

extractPagesLoaded ==
    /\ pc = "await_load"
    /\ LET doc == PDFDocumentLoad(pdf)
       IN  IF doc.err # NoError
           THEN /\ result' = Thrown(CatchExtractPages(doc.err))
                /\ pc' = "settled"
                /\ UNCHANGED <<pdfDoc, effects>>
           ELSE /\ pdfDoc' = doc.pages
                /\ effects' = Append(effects, "create")
                /\ pc' = "await_create"
                /\ UNCHANGED result
    /\ Frame
    /\ UNCHANGED <<fs, newPdfDoc, idx, nested>>

\* the for loop from position i up to its next await
Loop(i) ==
    LET k == NextInRange(pageNumbers.items, i, Len(pdfDoc))
    IN  /\ idx' = k
        /\ IF k <= Len(pageNumbers.items)
           THEN /\ effects' = effects \o Warnings(k - i) \o <<"copyPages">>
                /\ pc' = "await_copyPages"
           ELSE /\ effects' = effects \o Warnings(k - i) \o <<"save">>
                /\ pc' = "await_save"

extractPagesCreated ==
    /\ pc = "await_create"
    /\ newPdfDoc' = <<>>
    /\ Loop(1)
    /\ Frame
    /\ UNCHANGED <<fs, pdfDoc, nested, result>>

extractPagesCopied ==
    /\ pc = "await_copyPages"
    /\ newPdfDoc' = Append(newPdfDoc, copyPages(pdfDoc, pageNumbers.items[idx] - 1))
    /\ Loop(idx + 1)
    /\ Frame
    /\ UNCHANGED <<fs, pdfDoc, nested, result>>

extractPagesSaved ==
    /\ pc = "await_save"
    /\ effects' = Append(effects, "writeFileSync")
    /\ IF WriteFails(fs, outputPath)
       THEN /\ result' = Thrown(CatchExtractPages(WriteError))
            /\ fs' = fs
       ELSE /\ result' = Returned(NoValue)
            /\ fs' = [fs EXCEPT ![outputPath] = PdfFile(newPdfDoc)]
    /\ pc' = "settled"
    /\ Frame
    /\ UNCHANGED <<pdfDoc, newPdfDoc, idx, nested>>

\* the caller's await receives the settled promise; the instance keeps nothing
Receive ==
    /\ pc = "settled"
    /\ pc' = "idle"
    /\ op' = "none"
    /\ filePath' = Undefined
    /\ searchTerm' = Undefined
    /\ options' = "omitted"
    /\ outputPath' = Undefined
    /\ pageNumbers' = NoPageNumbers
    /\ pdf' = Missing
    /\ pdfDoc' = <<>>
    /\ newPdfDoc' = <<>>
    /\ idx' = 0
    /\ nested' = NoError
    /\ result' = Pending
    /\ effects' = <<>>
    /\ fs0' = fs
    /\ UNCHANGED fs

Next ==
    \/ intoarray
    \/ intoarrayParsed
    \/ getPageCount
    \/ getPageCountParsed
    \/ getMetadata
    \/ getMetadataParsed
    \/ searchText
    \/ searchTextParsed
    \/ convertToText
    \/ convertToTextParsed
    \/ extractPages
    \/ extractPagesLoaded
    \/ extractPagesCreated
    \/ extractPagesCopied
    \/ extractPagesSaved
    \/ Receive

Spec == Init /\ [][Next]_vars

(***************************************************************************)
(* Vocabulary of the properties.                                           *)
(***************************************************************************)
PublicOperations ==
    {"intoarray", "getPageCount", "searchText", "extractPages", "getMetadata",
     "convertToText"}

Taxonomy ==
    {"FileNotFound", "InvalidFileType", "ParseError", "PageCountError",
     "InvalidSearchTerm", "SearchError", "InvalidOutputPath", "InvalidPageNumbers",
     "ExtractPagesError", "MetadataError", "ConvertToTextError"}

DelegateCalls == {"pdfparse", "load", "create", "copyPages", "save"}
ReadCalls == {"readFileSync"}
WriteCalls == {"writeFileSync"}

Count(calls, S) == Cardinality({i \in 1..Len(calls) : calls[i] \in S})

Settled == pc = "settled"
Failed == Settled /\ result.status = "thrown"
Succeeded == Settled /\ result.status = "returned"
FailedWith(type) ==
    Failed /\ result.err.name = "PDFKitError" /\ result.err.type = type

\* the paths of the model whose extension is .pdf in any letter case
PdfNamed == {A_PDF, B_PDF, D_PDF, O_PDF}

ExistedAtCall == filePath \in Paths /\ fs0[filePath].kind # "missing"
PassedValidation == ExistedAtCall /\ filePath \in PdfNamed
\* the input is a file both delegates decode
DecodableInput == PassedValidation /\ fs0[filePath].kind = "pdf"
\* the failure is a delegate's: it rejected the bytes it was handed
DelegateFailed ==
    Failed /\ Len(effects) > 0 /\ effects[Len(effects)] \in {"pdfparse", "load"}
WriteWasRefused ==
    Failed /\ Len(effects) > 0 /\ effects[Len(effects)] = "writeFileSync"
WritableOutput == outputPath \in Paths /\ fs0[outputPath].kind # "dir"

(***************************************************************************)
(* C1: every public operation called with a path at which nothing exists   *)
(* fails with a PDFKitError of type FileNotFound, whatever its other       *)
(* arguments are; it fails in the call itself, before any await.           *)
(***************************************************************************)
C1_MissingPathFailsFileNotFound ==
    (pc # "idle" /\ ~ExistedAtCall) =>
        /\ op \in PublicOperations
        /\ FailedWith("FileNotFound")

C1_Witness ==
    /\ op = "extractPages"
    /\ filePath = M_TXT
    /\ Falsy(outputPath)
    /\ ~ValidPageNumbers(pageNumbers)
    /\ FailedWith("FileNotFound")

(***************************************************************************)
(* C2: every public operation called with an existing path whose extension *)
(* is not .pdf (letter case ignored) fails with InvalidFileType, having    *)
(* made no delegate call, no file read and no file write.                  *)
(***************************************************************************)
C2_NonPdfFailsBeforeAnyWork ==
    (pc # "idle" /\ ExistedAtCall /\ filePath \notin PdfNamed) =>
        /\ FailedWith("InvalidFileType")
        /\ Count(effects, DelegateCalls \cup ReadCalls \cup WriteCalls) = 0
        /\ fs = fs0

C2_Witness ==
    /\ op = "convertToText"
    /\ filePath = C_TXT
    /\ outputPath = O_PDF
    /\ FailedWith("InvalidFileType")
    /\ effects = <<"existsSync">>

(***************************************************************************)
(* C3 as stated: searchText with an empty search term fails with           *)
(* InvalidSearchTerm whether or not the path is a valid existing .pdf.     *)
(***************************************************************************)
C3_AsStated ==
    (Settled /\ op = "searchText" /\ Falsy(searchTerm)) =>
        FailedWith("InvalidSearchTerm")

(***************************************************************************)
(* C3 amended: searchText with an empty search term fails with             *)
(* InvalidSearchTerm when the path passes validation and the options are   *)
(* an object or omitted; a missing path fails with FileNotFound and an     *)
(* existing non-.pdf path with InvalidFileType, since the path is checked  *)
(* first, and null options fail with SearchError before the term is        *)
(* looked at.  In no case is the file read.                                *)
(***************************************************************************)
C3_EmptyTermAfterValidation ==
    (pc # "idle" /\ op = "searchText" /\ Falsy(searchTerm)) =>
        /\ Count(effects, DelegateCalls \cup ReadCalls) = 0
        /\ IF ~ExistedAtCall THEN FailedWith("FileNotFound")
           ELSE IF filePath \notin PdfNamed THEN FailedWith("InvalidFileType")
           ELSE IF options = "null" THEN FailedWith("SearchError")
           ELSE FailedWith("InvalidSearchTerm")

C3_Witness ==
    /\ op = "searchText"
    /\ filePath = A_PDF
    /\ searchTerm = EmptyString
    /\ options = "caseSensitive"
    /\ FailedWith("InvalidSearchTerm")

(***************************************************************************)
(* C4: extractPages on a decodable input, with a non-empty output path and *)
(* a non-empty array of page numbers, builds the document made of exactly  *)
(* the requested numbers p with 1 <= p <= sourcePageCount, in the order    *)
(* requested, duplicates included; numbers out of range are skipped and    *)
(* raise nothing; it returns without throwing and that document is the     *)
(* file at the output path.  (When the file system refuses the write, the  *)
(* same document was built and the refusal is the only failure.)           *)
(***************************************************************************)
RequestedInRange ==
    SelectSeq(pageNumbers.items,
              LAMBDA n : 1 <= n /\ n <= Len(fs0[filePath].pages))

ExpectedPages ==
    [k \in 1..Len(RequestedInRange) |-> fs0[filePath].pages[RequestedInRange[k]]]

C4_ExtractPagesKeepsRequestedOrder ==
    (Settled /\ op = "extractPages" /\ DecodableInput /\ ~Falsy(outputPath)
        /\ ValidPageNumbers(pageNumbers)) =>
        /\ newPdfDoc = ExpectedPages
        /\ Count(effects, {"warn"}) = Len(pageNumbers.items) - Len(RequestedInRange)
        /\ IF WritableOutput
           THEN Succeeded /\ fs[outputPath] = PdfFile(ExpectedPages)
           ELSE WriteWasRefused /\ FailedWith("ExtractPagesError")

\* pages <<2, 2>> of the two-page a.pdf: a duplicate, and page 1 left out
C4_Witness ==
    /\ Succeeded
    /\ op = "extractPages"
    /\ filePath = A_PDF
    /\ pageNumbers = ArrayOf(<<2, 2>>)
    /\ fs[outputPath] = PdfFile(<<Page2, Page2>>)

\* pages <<0, 2>> of the one-page b.PDF: nothing in range, an empty document
C4_WitnessNothingInRange ==
    /\ Succeeded
    /\ op = "extractPages"
    /\ filePath = B_PDF
    /\ pageNumbers = ArrayOf(<<0, 2>>)
    /\ fs[outputPath] = PdfFile(<<>>)

(***************************************************************************)
(* C5: searchText on a decodable file with a non-empty term returns the    *)
(* lines of intoarray that contain the term, in their order: exact-case    *)
(* when caseSensitive is true, and otherwise (options omitted included)    *)
(* with line and term both case-folded.  The result may be empty.          *)
(***************************************************************************)
Fold(c) ==
    CASE c = "F" -> "f" [] c = "O" -> "o" [] c = "P" -> "p" [] c = "D" -> "d"
      [] OTHER -> c
Folded(s) == [i \in 1..Len(s) |-> Fold(s[i])]
Occurs(t, s) ==
    \E from \in 1..(Len(s) + 1) :
        /\ from + Len(t) - 1 <= Len(s)
        /\ \A k \in 1..Len(t) : s[from + k - 1] = t[k]

IntoarrayLines == split(DecodedText(fs0[filePath].pages))

Matches(line) ==
    IF options = "caseSensitive" THEN Occurs(searchTerm, line)
    ELSE Occurs(Folded(searchTerm), Folded(line))

\* result is the subsequence of lines at the positions in `at`, in order
IsSubsequenceAt(res, lines, at) ==
    /\ Len(res) = Cardinality(at)
    /\ \A i \in at :
           res[Cardinality({j \in at : j <= i})] = lines[i]

C5_SearchReturnsMatchingLinesInOrder ==
    (Settled /\ op = "searchText" /\ DecodableInput /\ ~Falsy(searchTerm)
        /\ options # "null") =>
        /\ Succeeded
        /\ result.value.kind = "lines"
        /\ IsSubsequenceAt(result.value.lines, IntoarrayLines,
                           {i \in 1..Len(IntoarrayLines) : Matches(IntoarrayLines[i])})

\* "Fo" without options matches the lines "Fo" and "fO" of a.pdf
C5_Witness ==
    /\ Succeeded
    /\ op = "searchText"
    /\ filePath = A_PDF
    /\ searchTerm = <<"F", "o">>
    /\ options = "omitted"
    /\ result.value.lines = <<<<"F", "o">>, <<"f", "O">>>>

\* "Fo" with caseSensitive true matches only the line "Fo"
C5_WitnessCaseSensitive ==
    /\ Succeeded
    /\ op = "searchText"
    /\ filePath = A_PDF
    /\ searchTerm = <<"F", "o">>
    /\ options = "caseSensitive"
    /\ result.value.lines = <<<<"F", "o">>>>

(***************************************************************************)
(* C6: convertToText on a decodable file without an output path returns    *)
(* intoarray's lines joined with newline, which is the delegate's decoded  *)
(* text, intoarray's result having at least one line; with an output path  *)
(* it writes that string to the output path and returns the empty string.  *)
(* (When the file system refuses the write the call fails with             *)
(* ConvertToTextError.)                                                    *)
(***************************************************************************)
C6_ConvertToTextRoundTrip ==
    (Settled /\ op = "convertToText" /\ DecodableInput) =>
        LET text == DecodedText(fs0[filePath].pages)
        IN  /\ Len(IntoarrayLines) >= 1
            /\ join(IntoarrayLines) = text
            /\ IF Falsy(outputPath)
               THEN Succeeded /\ result.value = StringValue(text) /\ fs = fs0
               ELSE IF WritableOutput
               THEN /\ Succeeded
                    /\ result.value = StringValue(EmptyString)
                    /\ fs[outputPath] = TextFile(text)
               ELSE WriteWasRefused /\ FailedWith("ConvertToTextError")

C6_Witness ==
    /\ Succeeded
    /\ op = "convertToText"
    /\ filePath = A_PDF
    /\ outputPath = O_PDF
    /\ result.value.text = EmptyString
    /\ fs[O_PDF] = TextFile(<<NL, NL, "F", "o", NL, NL, "f", "O", NL, "z">>)

C6_WitnessReturned ==
    /\ Succeeded
    /\ op = "convertToText"
    /\ filePath = A_PDF
    /\ Falsy(outputPath)
    /\ result.value.text = <<NL, NL, "F", "o", NL, NL, "f", "O", NL, "z">>

(***************************************************************************)
(* C7 as stated: a delegate failure reaches the caller with the tag of the *)
(* operation called (SearchError for searchText, ConvertToTextError for    *)
(* convertToText, ...), so that each operation surfaces only the error     *)
(* types the interface table lists for it.                                 *)
(***************************************************************************)
OwnTag(o) ==
    CASE o = "intoarray" -> "ParseError"
      [] o = "getPageCount" -> "PageCountError"
      [] o = "searchText" -> "SearchError"
      [] o = "extractPages" -> "ExtractPagesError"
      [] o = "getMetadata" -> "MetadataError"
      [] OTHER -> "ConvertToTextError"

TableTypes(o) ==
    {"FileNotFound", "InvalidFileType", OwnTag(o)}
        \cup (IF o = "searchText" THEN {"InvalidSearchTerm"} ELSE {})
        \cup (IF o = "extractPages" THEN {"InvalidOutputPath", "InvalidPageNumbers"}
              ELSE {})

C7_AsStated ==
    Failed =>
        /\ result.err.type \in TableTypes(op)
        /\ DelegateFailed => result.err.type = OwnTag(op)

(***************************************************************************)
(* C7 amended: a failure of the delegate library (or of the file read)     *)
(* reaches the caller with the tag of the operation in which it happened:  *)
(* ParseError for intoarray, PageCountError for getPageCount,              *)
(* ExtractPagesError for extractPages, MetadataError for getMetadata, and  *)
(* ParseError, too, for searchText and convertToText, where it happens in  *)
(* the nested intoarray call.  Each operation surfaces the types of the    *)
(* interface table, plus ParseError for searchText and convertToText;      *)
(* SearchError is left to null options and ConvertToTextError to a refused *)
(* write of the output.                                                    *)
(***************************************************************************)
SurfacedTag(o) ==
    IF o \in {"searchText", "convertToText"} THEN "ParseError" ELSE OwnTag(o)

ReadWasRefused ==
    Failed /\ Len(effects) > 0 /\ effects[Len(effects)] = "readFileSync"

C7_DelegateFailureTag ==
    Failed =>
        /\ result.err.type \in TableTypes(op) \cup {SurfacedTag(op)}
        /\ (DelegateFailed \/ ReadWasRefused) => result.err.type = SurfacedTag(op)
        /\ (op = "searchText" /\ result.err.type = "SearchError") =>
               (options = "null" /\ Count(effects, DelegateCalls \cup ReadCalls) = 0)
        /\ (op = "convertToText" /\ result.err.type = "ConvertToTextError") =>
               WriteWasRefused

\* searchText on a .PDF file that is no PDF: pdf-parse rejects, ParseError surfaces
C7_Witness ==
    /\ op = "searchText"
    /\ filePath = B_PDF
    /\ fs0[B_PDF].kind = "text"
    /\ DelegateFailed
    /\ FailedWith("ParseError")

(***************************************************************************)
(* C8: every failure of a public operation reaches the caller as a         *)
(* PDFKitError whose type is one of the eleven tags, never UnknownError;   *)
(* an error of the taxonomy is wrapped at most once: the PDFKitError that  *)
(* searchText or convertToText catches from the nested intoarray, and the  *)
(* error of the operation's own validation, reach the caller with type and *)
(* message unchanged.  No failure is suppressed and no call is repeated.   *)
(***************************************************************************)
WrapPrefixes ==
    {"Failed to parse PDF: ", "Failed to get page count: ", "Failed to search PDF: ",
     "Failed to extract pages: ", "Failed to get metadata: ",
     "Failed to convert PDF to text: "}

TimesWrapped(err) == Count(err.message, WrapPrefixes)

C8_TaxonomyErrorsPassUnchanged ==
    /\ Failed =>
        /\ result.err.name = "PDFKitError"
        /\ result.err.type \in Taxonomy
        /\ TimesWrapped(result.err) <= 1
        /\ nested # NoError =>
               /\ op \in {"searchText", "convertToText"}
               /\ nested.name = "PDFKitError"
               /\ result.err = nested
        /\ ~ExistedAtCall =>
               (result.err.message[1] = "File not found: " /\ TimesWrapped(result.err) = 0)
        /\ (ExistedAtCall /\ filePath \notin PdfNamed) =>
               (result.err.message[1] = "Invalid file type. Expected .pdf, got "
                    /\ TimesWrapped(result.err) = 0)
        /\ Count(effects, {"pdfparse", "load"}) <= 1
    /\ (Settled /\ PassedValidation /\ ~DecodableInput) => Failed
    /\ Settled => (result.status \in {"returned", "thrown"} /\ op \in PublicOperations)
    /\ ~Failed => nested = NoError

\* convertToText on a .PDF file that is no PDF: intoarray's ParseError passes through
C8_Witness ==
    /\ op = "convertToText"
    /\ filePath = B_PDF
    /\ nested = PDFKitError(<<"Failed to parse PDF: ", "Invalid PDF structure">>, "ParseError")
    /\ Failed
    /\ result.err = nested

(***************************************************************************)
(* C9 as stated: a call makes at most one file read and at most one        *)
(* delegate invocation, the pdf-lib calls of extractPages counted each.    *)
(***************************************************************************)
C9_AsStated ==
    /\ Count(effects, ReadCalls) <= 1
    /\ Count(effects, DelegateCalls) <= 1

(***************************************************************************)
(* C9 amended: a call makes at most one file read, nested calls included.  *)
(* Every operation but extractPages makes at most one delegate invocation, *)
(* of pdf-parse.  extractPages makes load, create, one copyPages for each  *)
(* requested page number that is in range, and save, in that order: three  *)
(* invocations plus one per copied page when it gets to save.              *)
(***************************************************************************)
DelegateCallsMade == SelectSeq(effects, LAMBDA e : e \in DelegateCalls)

ExtractPagesCalls ==
    <<"load", "create">>
        \o [k \in 1..Len(RequestedInRange) |-> "copyPages"]
        \o <<"save">>

C9_OneReadAndDelegateCallsOfExtractPages ==
    pc # "idle" =>
        /\ Count(effects, ReadCalls) <= 1
        /\ op # "extractPages" =>
               (Len(DelegateCallsMade) <= 1
                    /\ \A i \in 1..Len(DelegateCallsMade) : DelegateCallsMade[i] = "pdfparse")
        /\ (op = "extractPages" /\ ~DecodableInput) =>
               (Len(DelegateCallsMade) <= 1
                    /\ \A i \in 1..Len(DelegateCallsMade) : DelegateCallsMade[i] = "load")
        /\ (op = "extractPages" /\ DecodableInput /\ Len(DelegateCallsMade) > 0) =>
               /\ Len(DelegateCallsMade) <= Len(ExtractPagesCalls)
               /\ DelegateCallsMade = SubSeq(ExtractPagesCalls, 1, Len(DelegateCallsMade))
               /\ (Settled \/ pc = "await_save") => DelegateCallsMade = ExtractPagesCalls

\* extractPages of pages <<1, 2>> of a.pdf: load, create, two copyPages, save
C9_Witness ==
    /\ Succeeded
    /\ op = "extractPages"
    /\ filePath = A_PDF
    /\ pageNumbers = ArrayOf(<<1, 2>>)
    /\ DelegateCallsMade = <<"load", "create", "copyPages", "copyPages", "save">>
    /\ Count(effects, ReadCalls) = 1

(***************************************************************************)
(* C10: extractPages and convertToText write the output path at most once  *)
(* in a call, as the last step, after validation, the argument checks and  *)
(* every delegate call; nothing else is written, and a call that fails     *)
(* with FileNotFound, InvalidFileType, InvalidOutputPath,                  *)
(* InvalidPageNumbers or a delegate failure leaves the files as they were. *)
(* extractPages checks the input path, then the output path, then the page *)
(* numbers, and reports the first check that fails.                        *)
(***************************************************************************)
C10_WriteOnceLastAndCheckOrder ==
    pc # "idle" =>
        /\ Count(effects, WriteCalls) <= 1
        /\ Count(effects, WriteCalls) = 1 =>
               /\ Settled
               /\ op \in {"extractPages", "convertToText"}
               /\ effects[Len(effects)] = "writeFileSync"
               /\ DecodableInput /\ ~Falsy(outputPath)
               /\ op = "extractPages" =>
                      (ValidPageNumbers(pageNumbers) /\ DelegateCallsMade = ExtractPagesCalls)
               /\ op = "convertToText" => DelegateCallsMade = <<"pdfparse">>
        /\ fs # fs0 =>
               /\ Succeeded
               /\ Count(effects, WriteCalls) = 1
               /\ \A p \in Paths \ {outputPath} : fs[p] = fs0[p]
        /\ (Failed /\ ~WriteWasRefused) => (fs = fs0 /\ Count(effects, WriteCalls) = 0)
        /\ (Settled /\ op = "extractPages") =>
               IF ~ExistedAtCall THEN FailedWith("FileNotFound")
               ELSE IF filePath \notin PdfNamed THEN FailedWith("InvalidFileType")
               ELSE IF Falsy(outputPath) THEN FailedWith("InvalidOutputPath")
               ELSE IF ~ValidPageNumbers(pageNumbers) THEN FailedWith("InvalidPageNumbers")
               ELSE ~DecodableInput => FailedWith("ExtractPagesError")

\* no output path and no page numbers: the output path is the one reported
C10_Witness ==
    /\ op = "extractPages"
    /\ filePath = A_PDF
    /\ Falsy(outputPath)
    /\ ~ValidPageNumbers(pageNumbers)
    /\ FailedWith("InvalidOutputPath")
    /\ fs = fs0

\* the delegate rejects the input after the output file exists: it is untouched
C10_WitnessOutputKept ==
    /\ op = "extractPages"
    /\ filePath = B_PDF
    /\ outputPath = O_PDF
    /\ fs0[O_PDF].kind = "pdf"
    /\ DelegateFailed
    /\ fs[O_PDF] = fs0[O_PDF]

=============================================================================
